---- MODULE Spec2Model ----
(***************************************************************************)
(* A model of src/memm.py: the MEMM part-of-speech tagger `Classifier`.    *)
(*                                                                         *)
(* The state is one Classifier object (its attributes dv, le, lg), the     *)
(* tagged-sentence objects the caller holds and passes to train (Python    *)
(* lists, which train can mutate), and the frame of the call in progress   *)
(* or last finished.  DictVectorizer, LabelEncoder and LogisticRegression  *)
(* are modelled by what memm.py observes of them: the sorted vocabulary,   *)
(* the sorted classes, and a fitted model that answers every query with    *)
(* one of the class indices it was fitted on.                              *)
(***************************************************************************)
EXTENDS Integers, Sequences, FiniteSets, TLC

(* ------------------------------ bounds -------------------------------- *)
\* longest token / tag sequence of a sentence object the caller builds
MaxLen == 2
\* longest token sequence handed to a decoder
MaxTokens == 2
\* number of train calls made on the Classifier
MaxTrain == 2

(* ----------------------------- alphabets ------------------------------ *)
Sentinel == "<s>"
\* every label string that can occur, in Python's string order
\* ('.' = 0x2E < '<' = 0x3C < 'N' = 0x4E)
TagOrder == <<".", "<s>", "NN">>
GoldTags == {".", "NN"}
\* every token that can occur, in Python's string order
TokenOrder == <<"a", "b", "c">>
\* the sentence objects the caller holds
SentIds == {1, 2}

TokenFeature(x) == "token=" \o x
PosFeature(x) == "pos-1=" \o x

\* every feature name that can occur, in Python's string order ('p' < 't')
FeatureOrder ==
    [i \in 1..Len(TagOrder) |-> PosFeature(TagOrder[i])]
    \o [i \in 1..Len(TokenOrder) |-> TokenFeature(TokenOrder[i])]

\* sorted(S): the members of S in the order of `order`
Sorted(order, S) == SelectSeq(order, LAMBDA x : x \in S)

Range(s) == {s[i] : i \in 1..Len(s)}
Min(a, b) == IF a <= b THEN a ELSE b
SeqsUpTo(S, n) == UNION {[1..k -> S] : k \in 0..n}

\* the text the caller's sentences are cut from: a b a b ...
CorpusToken(i) == IF i % 2 = 1 THEN "a" ELSE "b"
\* the gold tags of sentence object `id`: NN . NN ... or . NN . ...
CorpusTag(id, j) == IF (id + j) % 2 = 0 THEN "NN" ELSE "."
\* the text decoded sentences are cut from: a c a c ... ("c" is never trained on)
InputToken(i) == IF i % 2 = 1 THEN "a" ELSE "c"

VARIABLES
    sentences,     \* id -> [tok, pos]: the caller's sentence objects (mutable lists)
    gold,          \* id -> [tok, pos]: the sentences as the caller built them
    dv,            \* self.dv
    le,            \* self.le
    lg,            \* self.lg
    ntrain,        \* number of train calls started
    completed,     \* number of train calls that returned
    pc,            \* "idle" or "greedy" (inside predict_greedy's loop)
    call,          \* the call in progress or last finished: [op, arg]
    i,             \* predict_greedy: number of tokens consumed by the loop
    label,         \* predict_greedy: the local `label`
    dicts,         \* predict_greedy: the word_list dict built at each iteration
    feature_list,  \* predict_greedy: the local `feature_list`
    label_nums,    \* predict_greedy: the label_num predicted at each iteration
    label_list,    \* predict_greedy: the local `label_list`
    whole_doc,     \* train: the local `whole_doc` of the last call
    train_label,   \* train: the local `label` of the last call
    ret            \* outcome of the last finished call

vars == <<sentences, gold, dv, le, lg, ntrain, completed, pc, call, i, label,
          dicts, feature_list, label_nums, label_list, whole_doc, train_label, ret>>

(* ------------------------- scikit-learn objects ----------------------- *)
\* an attribute that was never assigned
Unset == [set |-> FALSE, vocabulary |-> <<>>, gen |-> 0]
UnsetLe == [set |-> FALSE, classes |-> <<>>, gen |-> 0]
\* LogisticRegression() before any fit: no coef_, no classes_
NewLg == [fitted |-> FALSE, n_in |-> 0, n_coef |-> 0, k_coef |-> 0,
          classes |-> <<>>, gen |-> 0]

\* DictVectorizer.fit: vocabulary_ is the sorted set of feature names seen
DvFit(docs, g) ==
    [set |-> TRUE,
     vocabulary |-> Sorted(FeatureOrder, UNION {DOMAIN docs[k] : k \in 1..Len(docs)}),
     gen |-> g]

\* DictVectorizer.transform of one dict: one row, a count per known column;
\* feature names not in the vocabulary are dropped
DvTransform(d, doc) ==
    [j \in 1..Len(d.vocabulary) |->
        IF d.vocabulary[j] \in DOMAIN doc THEN doc[d.vocabulary[j]] ELSE 0]

\* LabelEncoder.fit: classes_ is the sorted set of labels seen
LeFit(labels, g) ==
    [set |-> TRUE, classes |-> Sorted(TagOrder, Range(labels)), gen |-> g]

\* 0-based position of x in the sorted sequence s (x occurs in s)
IndexOf(s, x) == (CHOOSE k \in 1..Len(s) : s[k] = x) - 1

\* LabelEncoder.transform of a list of labels
LeTransform(e, labels) == [k \in 1..Len(labels) |-> IndexOf(e.classes, labels[k])]


\* LabelEncoder.inverse_transform of one label index (n < Len(e.classes))
LeInverse(e, n) == e.classes[n + 1]

\* LogisticRegression.fit(X, y).  check_X_y raises before anything is set when
\* the row counts differ; classes_ and n_features_in_ are set before liblinear
\* refuses a single class; otherwise coef_ is fitted for the classes of y.
LgFit(old, X, y, g) ==
    LET m == Cardinality(Range(y))
        ncols == IF Len(X) = 0 THEN 0 ELSE Len(X[1])
        cls == [k \in 1..m |-> k - 1]
    IN  IF Len(X) # Len(y)
        THEN [ok |-> FALSE, lg |-> old]
        ELSE IF m < 2
        THEN [ok |-> FALSE, lg |-> [old EXCEPT !.n_in = ncols, !.classes = cls]]
        ELSE [ok |-> TRUE,
              lg |-> [fitted |-> TRUE, n_in |-> ncols, n_coef |-> ncols,
                      k_coef |-> m, classes |-> cls, gen |-> g]]

\* LogisticRegression.predict raises on an unfitted model and on a row whose
\* width is not the width the model was fitted on
LgCanPredict(m, feature) ==
    m.fitted /\ Len(feature) = m.n_in /\ Len(feature) = m.n_coef

(* ------------------------------- results ------------------------------ *)
\* the value a call returns: None, an int, or the parts of a tuple
NoValue == [none |-> FALSE, int |-> 0, matrix |-> <<>>, tags |-> <<>>, labels |-> <<>>,
            tensor |-> <<>>, lattice |-> <<>>]
Raised(e) == [status |-> "raised", error |-> e, value |-> NoValue]
Returned(v) == [status |-> "returned", error |-> "", value |-> v]
Running == [status |-> "running", error |-> "", value |-> NoValue]

\* the locals of a call are gone once another call starts
NoGreedyLocals ==
    /\ i' = 0
    /\ label' = Sentinel
    /\ dicts' = <<>>
    /\ feature_list' = <<>>
    /\ label_nums' = <<>>
    /\ label_list' = <<>>
NoTrainLocals ==
    /\ whole_doc' = <<>>
    /\ train_label' = <<>>

(* -------------------------------- train ------------------------------- *)
\* pos.insert(0, "<s>")
InsertSentinel(pos) == <<Sentinel>> \o pos

\* list(zip(tok, pos)): pairs up to the shorter of the two
Zip(tok, pos) == [j \in 1..Min(Len(tok), Len(pos)) |-> <<tok[j], pos[j]>>]

\* {feature: word.count(feature) for feature in word}
FeatureCount(word) ==
    [f \in Range(word) |-> Cardinality({j \in 1..Len(word) : word[j] = f})]

\* the body of `for tok, pos in tagged_sentences` for the sentences ts[k..],
\* on st = [sent, whole_doc, label]
RECURSIVE TrainLoop(_, _, _)
TrainLoop(ts, k, st) ==
    IF k > Len(ts) THEN st
    ELSE LET id == ts[k]
             tok0 == st.sent[id].tok
             pos0 == st.sent[id].pos
             label1 == st.label \o pos0
             pos1 == InsertSentinel(pos0)
             tok == [j \in 1..Len(tok0) |-> TokenFeature(tok0[j])]
             pos == [j \in 1..Len(pos1) |-> PosFeature(pos1[j])]
             word_list == Zip(tok, pos)
             rows == [j \in 1..Len(word_list) |-> FeatureCount(word_list[j])]
         IN  TrainLoop(ts, k + 1,
                       [sent |-> [st.sent EXCEPT ![id].pos = pos1],
                        whole_doc |-> st.whole_doc \o rows,
                        label |-> label1])

\* the training sets: every sequence of the caller's sentence objects, no
\* longer than the number of objects (the same object may be passed twice)
TrainingSets == SeqsUpTo(SentIds, Cardinality(SentIds))

\* lines 112-115: X = dv.transform(whole_doc), y = le.transform(label),
\* lg.fit(X, y); what is left of self.lg and whether train returns
TrainFit(old, ndv, nle, docs, labels, g) ==
    IF Len(docs) = 0
    THEN \* dv.transform([]): ValueError, Sample sequence X is empty
         [ok |-> FALSE, lg |-> old, X |-> <<>>, y |-> <<>>]
    ELSE LET X == [k \in 1..Len(docs) |-> DvTransform(ndv, docs[k])]
             y == LeTransform(nle, labels)
             fit == LgFit(old, X, y, g)
         IN  [ok |-> fit.ok, lg |-> fit.lg, X |-> X, y |-> y]

Train(ts) ==
    /\ pc = "idle"
    /\ ntrain < MaxTrain
    /\ \E st \in {TrainLoop(ts, 1, [sent |-> sentences, whole_doc |-> <<>>, label |-> <<>>])} :
       \E ndv \in {DvFit(st.whole_doc, ntrain + 1)} :
       \E nle \in {LeFit(st.label, ntrain + 1)} :
       \E fit \in {TrainFit(lg, ndv, nle, st.whole_doc, st.label, ntrain + 1)} :
           /\ sentences' = st.sent
           /\ whole_doc' = st.whole_doc
           /\ train_label' = st.label
           /\ dv' = ndv
           /\ le' = nle
           /\ lg' = fit.lg
           /\ ntrain' = ntrain + 1
           /\ completed' = IF fit.ok THEN completed + 1 ELSE completed
           /\ call' = [op |-> "train", arg |-> ts]
           /\ ret' = IF fit.ok
                     THEN Returned([NoValue EXCEPT !.matrix = fit.X, !.labels = fit.y])
                     ELSE Raised("ValueError")
    /\ NoGreedyLocals
    /\ UNCHANGED <<gold, pc>>

(* --------------------- feature_index / label_index -------------------- *)
feature_index(feature) ==
    /\ pc = "idle"
    /\ call' = [op |-> "feature_index", arg |-> <<feature>>]
    /\ ret' = IF ~dv.set THEN Raised("AttributeError")
              ELSE IF feature \notin Range(dv.vocabulary) THEN Raised("KeyError")
              ELSE Returned([NoValue EXCEPT !.int = IndexOf(dv.vocabulary, feature)])
    /\ NoGreedyLocals
    /\ NoTrainLocals
    /\ UNCHANGED <<sentences, gold, dv, le, lg, ntrain, completed, pc>>

label_index(l) ==
    /\ pc = "idle"
    /\ call' = [op |-> "label_index", arg |-> <<l>>]
    /\ ret' = IF ~le.set THEN Raised("AttributeError")
              ELSE IF l \notin Range(le.classes) THEN Raised("ValueError")
              ELSE Returned([NoValue EXCEPT !.int = LeTransform(le, <<l>>)[1]])
    /\ NoGreedyLocals
    /\ NoTrainLocals
    /\ UNCHANGED <<sentences, gold, dv, le, lg, ntrain, completed, pc>>


(* ---------------------------- predict_greedy -------------------------- *)
\* the token sequences handed to the decoders
InputSeqs == {[j \in 1..n |-> InputToken(j)] : n \in 0..MaxTokens}

\* a decoder that forgets the tag it has just predicted
WordListNoCarry(word, prev) == [f \in {TokenFeature(word), PosFeature(Sentinel)} |-> 1]

\* word_list = {token: 1, pos: 1}
WordList(word, prev) == [f \in {TokenFeature(word), PosFeature(prev)} |-> 1]

\* a decoder that drops a tag equal to the one before it
AppendLabelCollapsing(list, l) ==
    IF Len(list) > 0 /\ list[Len(list)] = l THEN list ELSE Append(list, l)

\* label_list.append(label)
AppendLabel(list, l) == Append(list, l)

\* vstack(feature_list).toarray(): one row per block; no blocks is a ValueError
Vstack(blocks) == blocks

\* predict_greedy(tokens), or predict(tokens), which delegates to it:
\* the statements before the loop
StartGreedy(op, tokens) ==
    /\ pc = "idle"
    /\ pc' = "greedy"
    /\ call' = [op |-> op, arg |-> tokens]
    /\ NoGreedyLocals
    /\ NoTrainLocals
    /\ ret' = Running
    /\ UNCHANGED <<sentences, gold, dv, le, lg, ntrain, completed>>

GreedyRaise(e) ==
    /\ pc' = "idle"
    /\ ret' = Raised(e)
    /\ UNCHANGED <<i, label, dicts, feature_list, label_nums, label_list>>

\* one iteration of `for word in tokens`
GreedyStep ==
    /\ pc = "greedy"
    /\ i < Len(call.arg)
    /\ LET word == call.arg[i + 1]
           word_list == WordList(word, label)
           feature == DvTransform(dv, word_list)
       IN  IF ~dv.set
           THEN GreedyRaise("AttributeError")
           ELSE IF ~LgCanPredict(lg, feature)
           THEN GreedyRaise("ValueError")
           ELSE \E idx \in 0..(lg.k_coef - 1) :
                  IF idx >= Len(lg.classes)
                  THEN GreedyRaise("IndexError")
                  ELSE LET label_num == lg.classes[idx + 1]
                       IN  IF label_num >= Len(le.classes)
                           THEN GreedyRaise("ValueError")
                           ELSE /\ label' = LeInverse(le, label_num)
                                /\ dicts' = Append(dicts, word_list)
                                /\ feature_list' = Append(feature_list, feature)
                                /\ label_nums' = Append(label_nums, label_num)
                                /\ label_list' = AppendLabel(label_list, label')
                                /\ i' = i + 1
                                /\ UNCHANGED <<pc, ret>>
    /\ UNCHANGED <<sentences, gold, dv, le, lg, ntrain, completed, call,
                   whole_doc, train_label>>

\* the statements after the loop
GreedyReturn ==
    /\ pc = "greedy"
    /\ i = Len(call.arg)
    /\ pc' = "idle"
    /\ ret' = IF Len(feature_list) = 0
              THEN Raised("ValueError")
              ELSE IF call.op = "predict"
              THEN Returned([NoValue EXCEPT !.tags = label_list])
              ELSE Returned([NoValue EXCEPT !.matrix = Vstack(feature_list),
                                            !.tags = label_list])
    /\ UNCHANGED <<sentences, gold, dv, le, lg, ntrain, completed, call, i, label,
                   dicts, feature_list, label_nums, label_list, whole_doc, train_label>>

(* --------------------------- predict_viterbi -------------------------- *)
\* the method has a docstring and no statements: it returns None
predict_viterbi(tokens) ==
    /\ pc = "idle"
    /\ call' = [op |-> "predict_viterbi", arg |-> tokens]
    /\ ret' = Returned([NoValue EXCEPT !.none = TRUE])
    /\ NoGreedyLocals
    /\ NoTrainLocals
    /\ UNCHANGED <<sentences, gold, dv, le, lg, ntrain, completed, pc>>

(* ------------------------------ the system ---------------------------- *)
\* the sentence objects a caller can build: n tokens of the corpus text with
\* m gold tags; the two counts may differ, by one
Sentence(id, n, m) ==
    [tok |-> [j \in 1..n |-> CorpusToken(j)], pos |-> [j \in 1..m |-> CorpusTag(id, j)]]
SentenceChoices(id) ==
    UNION {{Sentence(id, n, m) : m \in {k \in 0..MaxLen : k - n \in {-1, 0, 1}}} :
              n \in 0..MaxLen}

Init ==
    /\ sentences \in {s \in [SentIds -> UNION {SentenceChoices(id) : id \in SentIds}] :
                        \A id \in SentIds : s[id] \in SentenceChoices(id)}
    /\ gold = sentences
    /\ dv = Unset
    /\ le = UnsetLe
    /\ lg = NewLg
    /\ ntrain = 0
    /\ completed = 0
    /\ pc = "idle"
    /\ call = [op |-> "__init__", arg |-> <<>>]
    /\ i = 0
    /\ label = Sentinel
    /\ dicts = <<>>
    /\ feature_list = <<>>
    /\ label_nums = <<>>
    /\ label_list = <<>>
    /\ whole_doc = <<>>
    /\ train_label = <<>>
    /\ ret = Returned(NoValue)

Next ==
    \/ \E ts \in TrainingSets : Train(ts)
    \/ \E f \in Range(FeatureOrder) : feature_index(f)
    \/ \E l \in Range(TagOrder) : label_index(l)
    \/ \E op \in {"predict", "predict_greedy"}, tokens \in InputSeqs : StartGreedy(op, tokens)
    \/ GreedyStep
    \/ GreedyReturn
    \/ \E tokens \in InputSeqs : predict_viterbi(tokens)

Spec == Init /\ [][Next]_vars


(* ============================== properties ============================ *)
\* a predict or predict_greedy call
GreedyCall == call.op \in {"predict", "predict_greedy"}
GreedyDone == GreedyCall /\ pc = "idle"
GreedyReturned == GreedyDone /\ ret.status = "returned"

\* the Classifier is trained: lg is fitted, and dv and le are the ones built by
\* the train call that fitted it
Trained == lg.fitted /\ dv.set /\ le.set /\ dv.gen = lg.gen /\ le.gen = lg.gen

\* C1: on a trained Classifier predict_greedy (and predict) of n >= 1 tokens
\* returns, and whenever either returns it returns exactly n tags, the k-th one
\* the decision made at the iteration that consumed token k; the feature
\* matrix predict_greedy returns has exactly n rows.
C1_OneTagPerToken ==
    /\ (GreedyDone /\ Trained /\ Len(call.arg) >= 1) => ret.status = "returned"
    /\ GreedyReturned =>
          /\ Len(ret.value.tags) = Len(call.arg)
          /\ \A k \in 1..Len(call.arg) :
                /\ TokenFeature(call.arg[k]) \in DOMAIN dicts[k]
                /\ ret.value.tags[k] = LeInverse(le, label_nums[k])
          /\ call.op = "predict_greedy" => Len(ret.value.matrix) = Len(call.arg)

\* C1 witness: predict_greedy has returned for two tokens, both tagged alike
C1_Witness ==
    /\ GreedyReturned /\ Trained
    /\ call.op = "predict_greedy"
    /\ Len(call.arg) = 2
    /\ Len(ret.value.tags) = 2
    /\ ret.value.tags[1] = ret.value.tags[2]

\* the feature vector the decoder must build for token k of the call
ExpectedDict(k) ==
    (TokenFeature(call.arg[k]) :> 1)
    @@ (PosFeature(IF k = 1 THEN "<s>" ELSE label_list[k - 1]) :> 1)

\* C2 (state part): at every point of predict_greedy's loop the carried tag is
\* "<s>" before token 0 and the last appended tag afterwards; the feature
\* vector built for token k is {"token="+tokens[k]: 1, "pos-1="+out[k-1]: 1};
\* out[k] is what the fitted model predicts for that vector, decoded by le.
C2_Carried ==
    GreedyCall =>
        /\ Len(label_list) = i /\ Len(dicts) = i
        /\ Len(feature_list) = i /\ Len(label_nums) = i
        /\ label = IF i = 0 THEN "<s>" ELSE label_list[i]
        /\ \A k \in 1..i :
              /\ dicts[k] = ExpectedDict(k)
              /\ feature_list[k] = DvTransform(dv, dicts[k])
              /\ label_nums[k] \in Range(lg.classes)
              /\ label_list[k] = LeInverse(le, label_nums[k])

\* C2 (step part): an iteration appends one tag and changes none appended before
C2_Committed ==
    (pc = "greedy" /\ pc' = "greedy")
        => /\ Len(label_list') = Len(label_list) + 1
           /\ SubSeq(label_list', 1, Len(label_list)) = label_list

\* C2: predict_greedy carries only the previous tag, builds each feature vector
\* from the token and the tag appended for the position before, and never
\* changes a tag once it is appended.
C2_GreedyCarriesPreviousTag == []C2_Carried /\ [][C2_Committed]_vars

\* C2 witness: the second token's vector was built with the first token's tag
C2_Witness ==
    /\ GreedyCall /\ Trained
    /\ i = 2
    /\ label_list[1] # "<s>"
    /\ PosFeature(label_list[1]) \in DOMAIN dicts[2]
    /\ label_list[2] # label_list[1]


\* the gold tags of the sentences as the caller built them
GoldTagSet == UNION {Range(gold[id].pos) : id \in SentIds}

\* C3: after any sequence of train calls, every tag a predict / predict_greedy
\* call returns is a gold tag of the training sentences and never "<s>", and
\* "<s>" is not in the label vocabulary the tags are decoded with.
C3_OutputTagsAreGoldTags ==
    GreedyReturned =>
        /\ Sentinel \notin Range(le.classes)
        /\ \A k \in 1..Len(ret.value.tags) :
              ret.value.tags[k] \in GoldTagSet /\ ret.value.tags[k] # Sentinel

\* cumulative log-probability of the first k tags of `path` (tag indices from 1)
\* under tensor[position][previous tag][tag], whose last previous-tag index
\* stands for "<s>"
RECURSIVE PathScore(_, _, _)
PathScore(tensor, path, k) ==
    IF k = 0 THEN 0
    ELSE PathScore(tensor, path, k - 1)
         + tensor[k][IF k = 1 THEN Len(tensor[k]) ELSE path[k - 1]][path[k]]

ViterbiDone == call.op = "predict_viterbi" /\ pc = "idle"

\* C4: on a trained Classifier predict_viterbi(tokens) returns a transition
\* tensor, a lattice and n tags, and the tags are a highest-scoring path under
\* the returned tensor.
C4_ViterbiReturnsBestPath ==
    (ViterbiDone /\ Trained) =>
        /\ ret.status = "returned"
        /\ ~ret.value.none
        /\ Len(ret.value.tags) = Len(call.arg)
        /\ Len(ret.value.tensor) = Len(call.arg)
        /\ Len(ret.value.lattice) = Len(call.arg)
        /\ \A k \in 1..Len(call.arg) : ret.value.tags[k] \in Range(le.classes)
        /\ LET n == Len(call.arg)
               best == [k \in 1..n |-> IndexOf(le.classes, ret.value.tags[k]) + 1]
           IN  \A path \in [1..n -> 1..Len(le.classes)] :
                  PathScore(ret.value.tensor, best, n)
                      >= PathScore(ret.value.tensor, path, n)

\* C5: on a trained Classifier, decoding zero tokens returns an empty tag
\* sequence and raises nothing.
C5_EmptyInputDecodes ==
    ((GreedyDone \/ ViterbiDone) /\ Trained /\ call.arg = <<>>) =>
        /\ ret.status = "returned"
        /\ ~ret.value.none
        /\ ret.value.tags = <<>>

\* a step that is a train call on the training set call'.arg
TrainStep == call'.op = "train" /\ ntrain' = ntrain + 1

\* a train call on a training set with a sentence whose token count differs
\* from its tag count (as they are when train is called) raises and fits nothing
C6_Malformed ==
    (TrainStep /\ \E k \in 1..Len(call'.arg) :
                     Len(sentences[call'.arg[k]].tok) # Len(sentences[call'.arg[k]].pos))
        => ret'.status = "raised" /\ lg'.fitted = lg.fitted /\ lg'.gen = lg.gen
\* C6: a train call on a training set with a sentence whose token count
\* differs from its tag count raises, and fits no model, whatever the other
\* sentences are.
C6_MismatchedSentenceAbortsTraining == [][C6_Malformed]_vars

\* C7: while no train call has completed, feature_index, label_index, predict,
\* predict_greedy and predict_viterbi each raise; none returns a value.
C7_UntrainedCallsRaise ==
    (completed = 0 /\ pc = "idle"
        /\ call.op \in {"feature_index", "label_index", "predict", "predict_greedy",
                        "predict_viterbi"})
        => ret.status = "raised"

\* the rows and labels C8 asks of train for the training set ts, read from the
\* sentences as they are when train is called
RECURSIVE ExpectedRows(_, _, _)
ExpectedRows(sent, ts, k) ==
    IF k > Len(ts) THEN <<>>
    ELSE [j \in 1..Len(sent[ts[k]].tok) |->
             (("token=" \o sent[ts[k]].tok[j]) :> 1)
             @@ (("pos-1=" \o (IF j = 1 THEN "<s>" ELSE sent[ts[k]].pos[j - 1])) :> 1)]
         \o ExpectedRows(sent, ts, k + 1)
RECURSIVE ExpectedLabels(_, _, _)
ExpectedLabels(sent, ts, k) ==
    IF k > Len(ts) THEN <<>>
    ELSE sent[ts[k]].pos \o ExpectedLabels(sent, ts, k + 1)

\* a train call on sentences that all have as many tags as tokens builds the
\* expected rows and labels
C8_Rows ==
    (TrainStep /\ \A k \in 1..Len(call'.arg) :
                     Len(sentences[call'.arg[k]].tok) = Len(sentences[call'.arg[k]].pos))
        => /\ whole_doc' = ExpectedRows(sentences, call'.arg, 1)
           /\ train_label' = ExpectedLabels(sentences, call'.arg, 1)
           /\ ret'.status = "returned" =>
                 /\ Len(ret'.value.matrix) = Len(whole_doc')
                 /\ ret'.value.labels = LeTransform(le', train_label')
\* C8: on a training set whose sentences all have as many tags as tokens, train
\* builds one row and one label per token, in corpus order: the row of token j
\* is {"token="+tok[j]: 1, "pos-1="+P: 1}, P the gold tag before it in the same
\* sentence or "<s>", and the label is label_index of its gold tag.
C8_TrainBuildsOneRowPerToken == [][C8_Rows]_vars

\* a train call changes no sentence object
C9_Frame == TrainStep => sentences' = sentences
\* C9: train leaves the caller's sentences as they were: every token and tag
\* sequence has the same elements after the call as before it.
C9_TrainLeavesInputUnchanged == [][C9_Frame]_vars

\* C10 (step part): a train call that raises leaves dv, le and lg as they were
C10_Atomic ==
    (TrainStep /\ ret'.status = "raised") => (dv' = dv /\ le' = le /\ lg' = lg)
\* C10 (state part): the fitted model is held together with the vectorizer and
\* the label encoder of the train call that fitted it
C10_SameTraining == lg.fitted => (dv.gen = lg.gen /\ le.gen = lg.gen)

\* C10: dv, le and lg always come from the same training set; a train call that
\* raises changes none of them.
C10_ModelEncoderVectorizerAgree == []C10_SameTraining /\ [][C10_Atomic]_vars

====
